---- MODULE Spec2Model ----
(***************************************************************************)
(* Hover event routing of kivy_garden.hover: HoverManager (dispatch, the   *)
(* grab ledger, reconciliation by direct "end" deliveries, the idle        *)
(* repeat timer) and HoverBehavior (the widget side).                      *)
(*                                                                         *)
(* Every manager method is one action.  The callbacks a method makes into  *)
(* the widget tree are computed by operators that thread a record s        *)
(*   evs   the MotionEvent objects, by uid                                 *)
(*   hids  every widget's hover_ids                                        *)
(*   led   HoverManager._events      tms  HoverManager._event_times        *)
(*   acc   the value the last call returned                                *)
(*   time  what Clock.get_time() and time.time() return during the call    *)
(*   ph    which manager loop is delivering (observation only)             *)
(*   err   an exception escaped (hover_ids.pop of a missing uid)           *)
(*   log   what was delivered, in order (observation only)                 *)
(* through the calls in the order the code makes them.                     *)
(***************************************************************************)
EXTENDS Integers, Sequences, FiniteSets, TLC

(***************************************************************************)
(* The widget tree: the window holds A and B (in children order), A holds  *)
(* C.  Positions are abstract points; Collide gives each widget's bounds.  *)
(* Point 0 is outside every widget, 1 is in A only, 2 is where A, its      *)
(* child C and B overlap, 3 is in B only.  No widget is a relative layout, *)
(* so window and widget coordinates coincide.                              *)
(***************************************************************************)
Widgets == {"A", "B", "C"}

None == "None"

WindowChildren == <<"A", "B">>

Children(w) == IF w = "A" THEN <<"C">> ELSE <<>>

Parent(w) == IF w = "C" THEN "A" ELSE None

Pos == {0, 1, 2, 3}

NoPos == -1

Collide(w, p) ==
    CASE w = "A" -> p \in {1, 2}
      [] w = "B" -> p \in {2, 3}
      [] w = "C" -> p = 2

Uids == {1, 2}

ETypes == {"begin", "update", "end"}

HoverModes == {"default", "all", "self"}

MODE_DEFAULT_DISPATCH == "default_dispatch"

MODE_DONT_DISPATCH == "dont_dispatch"

\* event_repeat_timeout values a manager is constructed with, in frames:
\* negative (repeating off) and 0 (every frame); SpecClock takes a longer one.
Timeouts == {-1, 0}

\* Frames the clock runs for in Spec.
MaxTime == 1

\* Changes made from outside the manager in one behaviour: the application
\* assigns a widget property or takes a widget out of the tree, or other code
\* grabs the event.
MaxChanges == 1

\* References other code puts on an event's grab_list at once.
MaxExternalGrabs == 2

VARIABLES
    hover_mode,            \* HoverBehavior.hover_mode, per widget
    disabled,              \* the value assigned to Widget.disabled, per widget
    wstate,                \* per widget: attached | detached | broken | dead
    hover_ids,             \* HoverBehavior.hover_ids, per widget: uid -> pos
    events,                \* the MotionEvent objects, by uid
    _events,               \* HoverManager._events: uid -> list of grab lists
    _event_times,          \* HoverManager._event_times: uid -> time
    _clock_event,          \* HoverManager._clock_event: 0 (None) or a timer
    event_repeat_timeout,  \* HoverManager.event_repeat_timeout
    Clock,                 \* the module global Clock is imported
    timers,                \* the intervals scheduled in the kivy Clock
    now,                   \* Clock.get_time(), in frames
    changes,               \* changes made from outside the manager so far
    error,                 \* an exception escaped a manager call
    log,                   \* deliveries of the last manager call
    idle                   \* observation: the dispatches the timer made for
                           \* the event since its last real sample

vars == <<hover_mode, disabled, wstate, hover_ids, events, _events,
          _event_times, _clock_event, event_repeat_timeout, Clock, timers,
          now, changes, error, log, idle>>

----------------------------------------------------------------------------
(* Sequences *)

RECURSIVE SeqRemoveFirst(_, _)
\* list.remove(x): drops the first occurrence
SeqRemoveFirst(s, x) ==
    IF s = <<>> THEN <<>>
    ELSE IF Head(s) = x THEN Tail(s)
    ELSE <<Head(s)>> \o SeqRemoveFirst(Tail(s), x)

InSeq(x, s) == \E i \in 1..Len(s) : s[i] = x

Range(s) == {s[i] : i \in 1..Len(s)}

----------------------------------------------------------------------------
(* The widget tree as the application left it *)

\* widget.get_root_window(): the widget and its ancestors are in the window
RECURSIVE get_root_window(_)
get_root_window(w) ==
    /\ wstate[w] \in {"attached", "broken"}
    /\ (Parent(w) = None \/ get_root_window(Parent(w)))

\* window.children[:] and widget.children[:]: removed widgets are not listed
LiveChildren(ws) == SelectSeq(ws, LAMBDA c : wstate[c] \in {"attached", "broken"})

\* weak_widget(): the widget, unless it was collected
Resolves(w) == wstate[w] # "dead"

\* self.disabled as kivy computes it: a widget is disabled when it or a widget
\* that holds it was assigned disabled = True
RECURSIVE is_disabled(_)
is_disabled(w) ==
    \/ disabled[w]
    \/ /\ Parent(w) # None
       /\ wstate[w] \in {"attached", "broken"}
       /\ is_disabled(Parent(w))

----------------------------------------------------------------------------
(* Observation *)

Entry(k, w, etype, uid, s) ==
    [k     |-> k,
     w     |-> w,
     etype |-> etype,
     uid   |-> uid,
     ph    |-> s.ph,
     gc    |-> s.evs[uid].grab_current,
     gs    |-> s.evs[uid].grab_state,
     gl    |-> s.evs[uid].grab_list,
     zero  |-> (s.evs[uid].dpos = 0 /\ s.evs[uid].ppos = s.evs[uid].pos),
     depth |-> s.evs[uid].depth,
     mode  |-> s.evs[uid].dispatch_mode,
     te    |-> s.evs[uid].time_end,
     hid   |-> IF w \in Widgets THEN s.hids[w][uid] ELSE NoPos,
     n     |-> IF uid \in DOMAIN s.led THEN Len(s.led[uid]) ELSE 0,
     acc   |-> s.acc]

Logged(k, w, etype, uid, s) ==
    [s EXCEPT !.log = Append(@, Entry(k, w, etype, uid, s))]

\* the entry that opens a timer callback or a stop: it is about no one event
Marked(k, s) ==
    [s EXCEPT !.log = Append(@,
        [k |-> k, w |-> None, etype |-> "", uid |-> 0, ph |-> "",
         gc |-> None, gs |-> FALSE, gl |-> <<>>, zero |-> FALSE, depth |-> 0,
         mode |-> "", hid |-> NoPos, n |-> 0, te |-> -1,
         acc |-> FALSE])]

----------------------------------------------------------------------------
(* MotionEvent *)

\* me.grab(widget): appends a weak reference to the widget
grab(w, uid, s) ==
    [s EXCEPT !.evs[uid].grab_list = Append(@, w)]

\* me.ungrab(widget): removes the reference when it is there
ungrab(w, uid, s) ==
    [s EXCEPT !.evs[uid].grab_list =
        IF InSeq(w, @) THEN SeqRemoveFirst(@, w) ELSE @]

\* me.push() / me.pop(): the attribute stack
push(uid, s) == [s EXCEPT !.evs[uid].depth = @ + 1]

pop(uid, s) == [s EXCEPT !.evs[uid].depth = @ - 1]

----------------------------------------------------------------------------
(* HoverBehavior *)

on_hover_enter(w, uid, s) == Logged("on_hover_enter", w, "", uid, s)

on_hover_update(w, uid, s) == Logged("on_hover_update", w, "", uid, s)

on_hover_leave(w, uid, s) == Logged("on_hover_leave", w, "", uid, s)

\* an on_hover_event that fires on_hover_update on every delivery to a widget
\* that already records the event
on_hover_event_every_delivery(w, etype, uid, s0) ==
    LET s  == Logged("on_hover_event", w, etype, uid, s0)
        me == s.evs[uid]
    IN
    IF etype \in {"update", "begin"} THEN
        IF me.grab_current = w THEN [s EXCEPT !.acc = TRUE]
        ELSE IF is_disabled(w) /\ Collide(w, me.pos) THEN [s EXCEPT !.acc = TRUE]
        ELSE IF Collide(w, me.pos) THEN
            IF s.hids[w][uid] = NoPos THEN
                [on_hover_enter(w, uid,
                    [grab(w, uid, s) EXCEPT !.hids[w][uid] = me.pos])
                    EXCEPT !.acc = TRUE]
            ELSE
                [on_hover_update(w, uid,
                    [grab(w, uid, s) EXCEPT !.hids[w][uid] = me.pos])
                    EXCEPT !.acc = TRUE]
        ELSE [s EXCEPT !.acc = FALSE]
    ELSE
        IF me.grab_current = w /\ s.hids[w][uid] # NoPos THEN
            [on_hover_leave(w, uid,
                ungrab(w, uid, [s EXCEPT !.hids[w][uid] = NoPos]))
                EXCEPT !.acc = TRUE]
        ELSE [s EXCEPT !.acc =
                  me.grab_current # w /\ is_disabled(w) /\ Collide(w, me.pos)]

\* an on_hover_event that treats a disabled widget as any other
on_hover_event_ignoring_disabled(w, etype, uid, s0) ==
    LET s  == Logged("on_hover_event", w, etype, uid, s0)
        me == s.evs[uid]
    IN
    IF etype \in {"update", "begin"} THEN
        IF me.grab_current = w THEN [s EXCEPT !.acc = TRUE]
        ELSE IF Collide(w, me.pos) THEN
            LET g == grab(w, uid, s) IN
            IF g.hids[w][uid] = NoPos THEN
                [on_hover_enter(w, uid, [g EXCEPT !.hids[w][uid] = me.pos])
                    EXCEPT !.acc = TRUE]
            ELSE IF g.hids[w][uid] # me.pos THEN
                [on_hover_update(w, uid, [g EXCEPT !.hids[w][uid] = me.pos])
                    EXCEPT !.acc = TRUE]
            ELSE [g EXCEPT !.acc = TRUE]
        ELSE [s EXCEPT !.acc = FALSE]
    ELSE
        IF me.grab_current = w THEN
            IF s.hids[w][uid] = NoPos THEN
                [s EXCEPT !.err = TRUE, !.acc = FALSE]
            ELSE
                [on_hover_leave(w, uid,
                    ungrab(w, uid, [s EXCEPT !.hids[w][uid] = NoPos]))
                    EXCEPT !.acc = TRUE]
        ELSE [s EXCEPT !.acc = FALSE]

\* an on_hover_event whose "end" forgets every event the widget records
on_hover_event_forgetting_all(w, etype, uid, s0) ==
    LET s  == Logged("on_hover_event", w, etype, uid, s0)
        me == s.evs[uid]
    IN
    IF etype \in {"update", "begin"} THEN
        IF me.grab_current = w THEN [s EXCEPT !.acc = TRUE]
        ELSE IF is_disabled(w) /\ Collide(w, me.pos) THEN [s EXCEPT !.acc = TRUE]
        ELSE IF Collide(w, me.pos) THEN
            LET g == grab(w, uid, s) IN
            IF g.hids[w][uid] = NoPos THEN
                [on_hover_enter(w, uid, [g EXCEPT !.hids[w][uid] = me.pos])
                    EXCEPT !.acc = TRUE]
            ELSE IF g.hids[w][uid] # me.pos THEN
                [on_hover_update(w, uid, [g EXCEPT !.hids[w][uid] = me.pos])
                    EXCEPT !.acc = TRUE]
            ELSE [g EXCEPT !.acc = TRUE]
        ELSE [s EXCEPT !.acc = FALSE]
    ELSE
        IF me.grab_current = w THEN
            IF s.hids[w][uid] = NoPos THEN
                [s EXCEPT !.err = TRUE, !.acc = FALSE]
            ELSE
                [on_hover_leave(w, uid,
                    ungrab(w, uid,
                        [s EXCEPT !.hids[w] = [u \in Uids |-> NoPos]]))
                    EXCEPT !.acc = TRUE]
        ELSE IF is_disabled(w) /\ Collide(w, me.pos) THEN [s EXCEPT !.acc = TRUE]
        ELSE [s EXCEPT !.acc = FALSE]

on_hover_event(w, etype, uid, s0) ==
    LET s  == Logged("on_hover_event", w, etype, uid, s0)
        me == s.evs[uid]
    IN
    IF etype \in {"update", "begin"} THEN
        IF me.grab_current = w THEN [s EXCEPT !.acc = TRUE]
        ELSE IF is_disabled(w) /\ Collide(w, me.pos) THEN [s EXCEPT !.acc = TRUE]
        ELSE IF Collide(w, me.pos) THEN
            LET g == grab(w, uid, s) IN
            IF g.hids[w][uid] = NoPos THEN
                [on_hover_enter(w, uid, [g EXCEPT !.hids[w][uid] = me.pos])
                    EXCEPT !.acc = TRUE]
            ELSE IF g.hids[w][uid] # me.pos THEN
                [on_hover_update(w, uid, [g EXCEPT !.hids[w][uid] = me.pos])
                    EXCEPT !.acc = TRUE]
            ELSE [g EXCEPT !.acc = TRUE]
        ELSE [s EXCEPT !.acc = FALSE]
    ELSE \* etype = "end"
        IF me.grab_current = w THEN
            IF s.hids[w][uid] = NoPos THEN
                \* hover_ids.pop(me.uid) raises KeyError
                [s EXCEPT !.err = TRUE, !.acc = FALSE]
            ELSE
                [on_hover_leave(w, uid,
                    ungrab(w, uid, [s EXCEPT !.hids[w][uid] = NoPos]))
                    EXCEPT !.acc = TRUE]
        ELSE IF is_disabled(w) /\ Collide(w, me.pos) THEN [s EXCEPT !.acc = TRUE]
        ELSE [s EXCEPT !.acc = FALSE]

RECURSIVE on_motion(_, _, _, _)
RECURSIVE ChildrenLoop(_, _, _, _, _)

\* kivy Widget.on_motion, reached by super().on_motion(etype, me): a disabled
\* widget and MODE_DONT_DISPATCH offer nothing; otherwise the children are
\* offered the event in order until one accepts.
Widget_on_motion(w, etype, uid, s) ==
    IF is_disabled(w) \/ s.evs[uid].dispatch_mode = MODE_DONT_DISPATCH
    THEN [s EXCEPT !.acc = FALSE]
    ELSE ChildrenLoop(LiveChildren(Children(w)), 1, etype, uid, s)

ChildrenLoop(ws, i, etype, uid, s) ==
    LET Offered(r) ==
            IF r.acc THEN r ELSE ChildrenLoop(ws, i + 1, etype, uid, r)
    IN IF i > Len(ws) THEN [s EXCEPT !.acc = FALSE]
       ELSE Offered(on_motion(ws[i], etype, uid, s))

\* an on_motion that, in every mode, handles the event itself only when no
\* child accepted it
on_motion_self_children_first(w, etype, uid, prev_mode, r1) ==
    LET Own(r2) ==
            IF hover_mode[w] = "default" THEN r2
            ELSE [r2 EXCEPT !.acc = r2.acc \/ r1.acc,
                            !.evs[uid].dispatch_mode = prev_mode]
    IN IF r1.acc THEN r1
       ELSE Own(Logged("handled", w, etype, uid,
                    on_hover_event(w, etype, uid, r1)))

\* HoverBehavior.on_motion: what follows super().on_motion(etype, me), which
\* left r1; prev_mode is me.dispatch_mode at entry
on_motion_self(w, etype, uid, prev_mode, r1) ==
    LET Own(r2) ==
            IF hover_mode[w] = "default" THEN r2
            ELSE [r2 EXCEPT !.acc = r2.acc \/ r1.acc,
                            !.evs[uid].dispatch_mode = prev_mode]
    IN IF hover_mode[w] = "default" /\ r1.acc THEN r1
       ELSE Own(Logged("handled", w, etype, uid,
                    on_hover_event(w, etype, uid, r1)))

\* HoverBehavior.on_motion (the event is a hover event with a position)
on_motion(w, etype, uid, s0) ==
    LET s == Logged("on_motion", w, etype, uid, s0) IN
    Logged("on_motion_return", w, etype, uid,
        on_motion_self(w, etype, uid, s0.evs[uid].dispatch_mode,
            Widget_on_motion(w, etype, uid,
                IF hover_mode[w] = "self"
                THEN [s EXCEPT !.evs[uid].dispatch_mode = MODE_DONT_DISPATCH]
                ELSE s)))

----------------------------------------------------------------------------
(* Dictionaries: a function whose domain is the set of keys *)

DictSet(d, k, v) == [x \in (DOMAIN d) \cup {k} |-> IF x = k THEN v ELSE d[x]]

DictDel(d, k) == [x \in (DOMAIN d) \ {k} |-> d[x]]

\* defaultdict(list).__getitem__
DictGetList(d, k) == IF k \in DOMAIN d THEN d[k] ELSE <<>>

----------------------------------------------------------------------------
(* HoverManager *)

RECURSIVE WindowLoop(_, _, _, _, _)
\* for widget in self.window.children[:]: stop at the first that accepts; what
\* each widget.dispatch('on_motion', etype, me) returned is logged
WindowLoop(ws, i, etype, uid, s) ==
    LET Offered(r) ==
            IF r.acc THEN r ELSE WindowLoop(ws, i + 1, etype, uid, r)
    IN IF i > Len(ws) THEN s
       ELSE Offered(Logged("returned", ws[i], etype, uid,
                        on_motion(ws[i], etype, uid, s)))

_dispatch_to_widgets(etype, uid, s) ==
    pop(uid,
        WindowLoop(LiveChildren(WindowChildren), 1, etype, uid,
            push(uid, [s EXCEPT !.ph = "walk", !.acc = FALSE])))

\* self.window.transform_motion_event_2d(me, widget) raises AttributeError
TransformFails(w) == wstate[w] = "broken"

\* _dispatch_to_widget after the transform: the delivery with grab_current set
deliver(etype, uid, w, root_window, s1) ==
    LET prev_grab_current == s1.evs[uid].grab_current
        Delivered(s3) ==
            IF s3.err THEN s3
            ELSE [s3 EXCEPT
                    !.evs[uid].grab_current = prev_grab_current,
                    !.evs[uid].depth = IF root_window THEN @ - 1 ELSE @]
    IN Delivered(on_motion(w, etype, uid,
           [s1 EXCEPT !.evs[uid].grab_current = w, !.ph = "direct"]))

\* a direct delivery that lets the AttributeError of the transform through
_dispatch_to_widget_raising(etype, uid, w, s) ==
    LET root_window == get_root_window(w)
        s1 == IF root_window THEN push(uid, s) ELSE s
    IN IF root_window /\ TransformFails(w)
       THEN [Logged("transform_failed", w, etype, uid, s1) EXCEPT !.err = TRUE]
       ELSE deliver(etype, uid, w, root_window, s1)

_dispatch_to_widget(etype, uid, w, s) ==
    LET root_window == get_root_window(w)
        s1 == IF root_window THEN push(uid, s) ELSE s
    IN IF root_window /\ TransformFails(w)
       THEN pop(uid, Logged("transform_failed", w, etype, uid, s1))
       ELSE deliver(etype, uid, w, root_window, s1)

RECURSIVE GrabbedLoop(_, _, _, _, _)
\* for weak_widget in prev_me_grab_list
GrabbedLoop(prev_me_grab_list, i, me_grab_list, uid, s) ==
    IF i > Len(prev_me_grab_list) \/ s.err THEN s
    ELSE GrabbedLoop(prev_me_grab_list, i + 1, me_grab_list, uid,
            IF /\ ~InSeq(prev_me_grab_list[i], me_grab_list)
               /\ Resolves(prev_me_grab_list[i])
            THEN _dispatch_to_widget("end", uid, prev_me_grab_list[i], s)
            ELSE s)

\* a reconciliation that leaves grab_state as the pass set it
restore_grab_keeping_state(uid, me, s2) ==
    IF s2.err THEN s2
    ELSE Logged("reconciled", None, "end", uid,
             [s2 EXCEPT !.evs[uid].grab_list  = me.grab_list,
                        !.evs[uid].time_end   = me.time_end])

\* the end of _dispatch_to_grabbed_widgets: the event's fields are put back
restore_grab(uid, me, s2) ==
    IF s2.err THEN s2
    ELSE Logged("reconciled", None, "end", uid,
             [s2 EXCEPT !.evs[uid].grab_list  = me.grab_list,
                        !.evs[uid].grab_state = me.grab_state,
                        !.evs[uid].time_end   = me.time_end])

\* a reconciliation that ends every live widget of the previous snapshot,
\* whether the event's grab list names it or not
_dispatch_to_grabbed_widgets_all(uid, prev_me_grab_list, s) ==
    restore_grab(uid, s.evs[uid],
        GrabbedLoop(prev_me_grab_list, 1, <<>>, uid,
            Logged("reconcile", None, "end", uid,
                [s EXCEPT !.evs[uid].grab_list  = prev_me_grab_list,
                          !.evs[uid].time_end   = s.time,
                          !.evs[uid].grab_state = TRUE])))

_dispatch_to_grabbed_widgets(uid, prev_me_grab_list, s) ==
    restore_grab(uid, s.evs[uid],
        GrabbedLoop(prev_me_grab_list, 1, s.evs[uid].grab_list, uid,
            Logged("reconcile", None, "end", uid,
                [s EXCEPT !.evs[uid].grab_list  = prev_me_grab_list,
                          !.evs[uid].time_end   = s.time,
                          !.evs[uid].grab_state = TRUE])))

\* Clock.get_time() if Clock else 0
get_time(s) == IF Clock THEN s.time ELSE 0

\* dispatch, after the walk: the ledger takes (me, me.grab_list[:]) in front
\* and the time; s.accepted is the local variable accepted
dispatch_store(uid, s) ==
    Logged("store", None, "", uid,
        [s EXCEPT
            !.led = DictSet(@, uid,
                        <<s.evs[uid].grab_list>> \o DictGetList(@, uid)),
            !.tms = DictSet(@, uid, get_time(s)),
            !.accepted = s.acc])

\* a dispatch that pops the older entry and delivers no "end" for it
dispatch_reconcile_dropping(uid, s) ==
    IF Len(s.led[uid]) = 2 THEN [s EXCEPT !.led[uid] = <<@[1]>>] ELSE s

\* a dispatch that reconciles the older entry and keeps it as the snapshot
dispatch_reconcile_keeping_old(uid, s) ==
    IF Len(s.led[uid]) = 2
    THEN _dispatch_to_grabbed_widgets(uid, s.led[uid][2],
             [s EXCEPT !.led[uid] = <<@[2]>>])
    ELSE s

\* a dispatch that reconciles the older entry and leaves it in the ledger
dispatch_reconcile_unpopped(uid, s) ==
    IF Len(s.led[uid]) = 2
    THEN _dispatch_to_grabbed_widgets(uid, s.led[uid][2], s)
    ELSE s

\* dispatch: with two entries the older one is popped and reconciled
dispatch_reconcile(uid, s) ==
    IF Len(s.led[uid]) = 2
    THEN _dispatch_to_grabbed_widgets(uid, s.led[uid][2],
             [s EXCEPT !.led[uid] = <<@[1]>>])
    ELSE s

\* a dispatch whose "end" leaves the time of the event behind
dispatch_end_keeping_time(etype, uid, s) ==
    IF etype = "end" /\ ~s.err THEN [s EXCEPT !.led = DictDel(@, uid)] ELSE s

\* dispatch: "end" removes the id from the ledger and from the times
dispatch_end(etype, uid, s) ==
    IF etype = "end" /\ ~s.err
    THEN [s EXCEPT !.led = DictDel(@, uid), !.tms = DictDel(@, uid)]
    ELSE s

\* a dispatch that returns what the last delivery returned
dispatch_return_last(etype, uid, me_grab_list, s) ==
    IF s.err THEN s
    ELSE Logged("return", None, etype, uid,
             [s EXCEPT !.evs[uid].grab_list = me_grab_list])

\* a dispatch that leaves the event with the grab list of the walk
dispatch_return_unrestored(etype, uid, me_grab_list, s) ==
    IF s.err THEN s
    ELSE Logged("return", None, etype, uid, [s EXCEPT !.acc = s.accepted])

\* a dispatch whose ledger entry shares the list object of me.grab_list, so
\* that putting the grab list of entry back rewrites the snapshot
dispatch_return_aliasing(etype, uid, me_grab_list, s) ==
    IF s.err THEN s
    ELSE Logged("return", None, etype, uid,
             [s EXCEPT !.evs[uid].grab_list = me_grab_list,
                       !.acc = s.accepted,
                       !.led = IF uid \in DOMAIN @
                               THEN DictSet(@, uid, <<me_grab_list>>) ELSE @])

\* dispatch: the grab list of entry is put back and accepted is returned
dispatch_return(etype, uid, me_grab_list, s) ==
    IF s.err THEN s
    ELSE Logged("return", None, etype, uid,
             [s EXCEPT !.evs[uid].grab_list = me_grab_list,
                       !.acc = s.accepted])

\* a dispatch that ignores an "update" or "end" of an event it does not track
dispatch_tracked_only(etype, uid, s) ==
    IF uid \notin DOMAIN s.led /\ etype # "begin"
    THEN dispatch_return(etype, uid, s.evs[uid].grab_list,
             Logged("dispatch", None, etype, uid, s))
    ELSE dispatch_return(etype, uid, s.evs[uid].grab_list,
             dispatch_end(etype, uid,
                 dispatch_reconcile(uid,
                     dispatch_store(uid,
                         _dispatch_to_widgets(etype, uid,
                             [Logged("dispatch", None, etype, uid, s)
                                 EXCEPT !.evs[uid].grab_list = <<>>])))))

dispatch(etype, uid, s) ==
    dispatch_return(etype, uid, s.evs[uid].grab_list,
        dispatch_end(etype, uid,
            dispatch_reconcile(uid,
                dispatch_store(uid,
                    _dispatch_to_widgets(etype, uid,
                        [Logged("dispatch", None, etype, uid, s)
                            EXCEPT !.evs[uid].grab_list = <<>>])))))

RECURSIVE StopLoop(_, _)
\* for me_list in self._events.values(), here by ascending uid
StopLoop(uids, s) ==
    LET uid == CHOOSE u \in uids : \A v \in uids : u <= v IN
    IF uids = {} \/ s.err THEN s
    ELSE StopLoop(uids \ {uid},
                  _dispatch_to_grabbed_widgets(uid, s.led[uid][1], s))

\* stop: the loop over the ledger, then both dictionaries are cleared
stop(s) ==
    LET Cleared(r) == IF r.err THEN r ELSE [r EXCEPT !.led = <<>>, !.tms = <<>>]
    IN Cleared(StopLoop(DOMAIN s.led, Marked("stop", s)))

\* a timer callback that repeats every event of the ledger, however recent
events_to_update_all(s) == DOMAIN s.led

\* the events _dispatch_from_clock collects before it dispatches any
events_to_update(s) ==
    {uid \in DOMAIN s.led : ~(s.time - s.tms[uid] < event_repeat_timeout)}

\* a timer callback that dispatches the event as the provider left it
redispatch_as_is(uid, me, s) == dispatch("update", uid, s)

\* _dispatch_from_clock: one event is dispatched with its deltas zeroed, and
\* gets the deltas of me back
redispatch(uid, me, s) ==
    LET Restored(s2) ==
            IF s2.err THEN s2
            ELSE [s2 EXCEPT !.evs[uid].ppos = me.ppos,
                            !.evs[uid].dpos = me.dpos]
    IN Restored(dispatch("update", uid,
           [s EXCEPT !.evs[uid].ppos = me.pos, !.evs[uid].dpos = 0]))

RECURSIVE UpdateLoop(_, _)
\* for me in events_to_update, here by ascending uid
UpdateLoop(uids, s) ==
    LET uid == CHOOSE u \in uids : \A v \in uids : u <= v IN
    IF uids = {} \/ s.err THEN s
    ELSE UpdateLoop(uids \ {uid}, redispatch(uid, s.evs[uid], s))

\* a timer callback that collects and dispatches a second batch when the first
\* one is done
_dispatch_from_clock_again(s) ==
    LET Again(r) == IF r.err THEN r ELSE UpdateLoop(events_to_update(r), r)
    IN Again(UpdateLoop(events_to_update(s), Marked("tick", s)))

_dispatch_from_clock(s) ==
    UpdateLoop(events_to_update(s), Marked("tick", s))

----------------------------------------------------------------------------
(* State *)

NewEvent ==
    [pos |-> 0, ppos |-> 0, dpos |-> 0, grab_list |-> <<>>,
     grab_current |-> None, grab_state |-> FALSE, time_end |-> -1,
     depth |-> 0, dispatch_mode |-> MODE_DEFAULT_DISPATCH]

\* what idle holds while no started manager tracks the event
NotHeld(watch) == [watch |-> watch, held |-> FALSE, since |-> 0, n |-> 0]

\* HoverManager.__init__(event_repeat_timeout=t), over a fresh widget tree;
\* watch says whether idle is kept
InitWith(ts, watch) ==
    /\ hover_mode = [w \in Widgets |-> "default"]
    /\ disabled = [w \in Widgets |-> FALSE]
    /\ wstate = [w \in Widgets |-> "attached"]
    /\ hover_ids = [w \in Widgets |-> [u \in Uids |-> NoPos]]
    /\ events = [u \in Uids |-> NewEvent]
    /\ _events = <<>>
    /\ _event_times = <<>>
    /\ _clock_event = 0
    /\ event_repeat_timeout \in ts
    /\ Clock = FALSE
    /\ timers = <<>>
    /\ now = 0
    /\ changes = 0
    /\ error = FALSE
    /\ log = <<>>
    /\ idle = NotHeld(watch)

Init == InitWith(Timeouts, FALSE)

\* the state a manager call starts from, at clock time t
Pack(t) ==
    [evs |-> events, hids |-> hover_ids, led |-> _events,
     tms |-> _event_times, acc |-> FALSE, accepted |-> FALSE,
     err |-> FALSE, time |-> t, ph |-> "", log |-> <<>>]

Apply(r) ==
    /\ events' = r.evs
    /\ hover_ids' = r.hids
    /\ _events' = r.led
    /\ _event_times' = r.tms
    /\ error' = r.err
    /\ log' = r.log

\* the input provider's update of the event before it hands it over
Move(me, p) == [me EXCEPT !.ppos = me.pos, !.dpos = p - me.pos, !.pos = p]

----------------------------------------------------------------------------
(* Actions *)

\* a start that schedules the timer whatever the sign of the interval
Start_scheduling_always ==
    /\ ~error
    /\ Clock' = TRUE
    /\ IF _clock_event = 0
       THEN /\ timers' = Append(timers,
                  [timeout |-> event_repeat_timeout, last |-> now])
            /\ _clock_event' = Len(timers) + 1
       ELSE UNCHANGED <<timers, _clock_event>>
    /\ log' = <<>>
    /\ UNCHANGED <<hover_mode, disabled, wstate, hover_ids, events, _events,
                   _event_times, event_repeat_timeout, now, error, idle>>

\* a start that schedules a timer without looking at _clock_event
Start_scheduling_again ==
    /\ ~error
    /\ IF event_repeat_timeout >= 0
       THEN /\ Clock' = TRUE
            /\ timers' = Append(timers,
                  [timeout |-> event_repeat_timeout, last |-> now])
            /\ _clock_event' = Len(timers) + 1
       ELSE UNCHANGED <<Clock, timers, _clock_event>>
    /\ log' = <<>>
    /\ UNCHANGED <<hover_mode, disabled, wstate, hover_ids, events, _events,
                   _event_times, event_repeat_timeout, now, error, idle>>

\* HoverManager.start
Start ==
    /\ ~error
    /\ IF event_repeat_timeout >= 0
       THEN /\ Clock' = TRUE
            /\ IF _clock_event = 0
               THEN /\ timers' = Append(timers,
                          [timeout |-> event_repeat_timeout, last |-> now])
                    /\ _clock_event' = Len(timers) + 1
               ELSE UNCHANGED <<timers, _clock_event>>
       ELSE UNCHANGED <<Clock, timers, _clock_event>>
    /\ log' = <<>>
    /\ UNCHANGED <<hover_mode, disabled, wstate, hover_ids, events, _events,
                   _event_times, event_repeat_timeout, now, error, idle>>

\* clock_event.cancel()
Cancel(ts, i) == SubSeq(ts, 1, i - 1) \o SubSeq(ts, i + 1, Len(ts))

\* HoverManager.stop
Stop ==
    /\ ~error
    /\ Apply(stop(Pack(now)))
    /\ IF _clock_event # 0
       THEN /\ timers' = Cancel(timers, _clock_event)
            /\ _clock_event' = 0
       ELSE UNCHANGED <<timers, _clock_event>>
    /\ idle' = NotHeld(idle.watch)
    /\ UNCHANGED <<hover_mode, disabled, wstate, event_repeat_timeout, Clock,
                   now>>

\* HoverManager.dispatch(etype, me) with the event at position p
Dispatch(etype, uid, p) ==
    /\ ~error
    /\ Apply(dispatch(etype, uid, [Pack(now) EXCEPT !.evs[uid] = Move(@, p)]))
    /\ idle' = IF idle.watch /\ etype # "end" /\ _clock_event # 0
               THEN [idle EXCEPT !.held = TRUE, !.since = now, !.n = 0]
               ELSE NotHeld(idle.watch)
    /\ UNCHANGED <<hover_mode, disabled, wstate, _clock_event,
                   event_repeat_timeout, Clock, timers, now>>

RECURSIVE TimersLoop(_, _, _)
\* Clock.tick(): every scheduled interval that is due calls its callback
TimersLoop(ts, i, s) ==
    IF i > Len(ts) \/ s.err THEN s
    ELSE TimersLoop(ts, i + 1,
            IF s.time - ts[i].last >= ts[i].timeout
            THEN _dispatch_from_clock(s) ELSE s)

\* The next frame: the clock advances and runs the due timers
Tick(maxT) ==
    /\ ~error
    /\ now < maxT
    /\ now' = now + 1
    /\ Apply(TimersLoop(timers, 1, Pack(now + 1)))
    /\ timers' = [i \in 1..Len(timers) |->
                    IF now + 1 - timers[i].last >= timers[i].timeout
                    THEN [timers[i] EXCEPT !.last = now + 1] ELSE timers[i]]
    /\ idle' = IF idle.held
               THEN [idle EXCEPT !.n = @ + Cardinality(
                        {i \in 1..Len(log') : log'[i].k = "dispatch"})]
               ELSE idle
    /\ UNCHANGED <<hover_mode, disabled, wstate, _clock_event,
                   event_repeat_timeout, Clock>>

\* The application assigns hover_mode
SetHoverMode(w, m) ==
    /\ ~error
    /\ hover_mode[w] # m
    /\ hover_mode' = [hover_mode EXCEPT ![w] = m]
    /\ UNCHANGED <<disabled, wstate, hover_ids, events, _events, _event_times,
                   _clock_event, event_repeat_timeout, Clock, timers, now,
                   error, idle>>
    /\ log' = <<>>

\* The application assigns disabled
SetDisabled(w, v) ==
    /\ ~error
    /\ disabled[w] # v
    /\ disabled' = [disabled EXCEPT ![w] = v]
    /\ UNCHANGED <<hover_mode, wstate, hover_ids, events, _events,
                   _event_times, _clock_event, event_repeat_timeout, Clock,
                   timers, now, error, idle>>
    /\ log' = <<>>

\* The application takes a widget out of the tree: it keeps a reference to it
\* ("detached"), or drops it and the widget is collected ("dead"), or leaves
\* it under a parent whose to_widget fails ("broken")
Remove(w, to) ==
    /\ ~error
    /\ wstate[w] = "attached"
    /\ wstate' = [wstate EXCEPT ![w] = to]
    /\ UNCHANGED <<hover_mode, disabled, hover_ids, events, _events,
                   _event_times, _clock_event, event_repeat_timeout, Clock,
                   timers, now, error, idle>>
    /\ log' = <<>>

\* Lists of distinct widgets of up to n references
GrabLists(n) ==
    {gl \in UNION {[1..k -> Widgets] : k \in 1..n} :
        \A i, j \in 1..Len(gl) : i # j => gl[i] # gl[j]}

\* Code other than this manager grabs the event for some widgets
ExternalGrab(uid, gl) ==
    /\ ~error
    /\ events' = [events EXCEPT ![uid].grab_list = @ \o gl]
    /\ UNCHANGED <<hover_mode, disabled, wstate, hover_ids, _events,
                   _event_times, _clock_event, event_repeat_timeout, Clock,
                   timers, now, error, idle>>
    /\ log' = <<>>

\* a manager call or a frame
Call(A) == A /\ UNCHANGED changes

\* a change from outside the manager
Change(A) == changes < MaxChanges /\ changes' = changes + 1 /\ A

Next ==
    \/ Call(Start)
    \/ Call(Stop)
    \/ \E etype \in ETypes, p \in Pos : Call(Dispatch(etype, 1, p))
    \/ Call(Tick(MaxTime))
    \/ \E w \in Widgets, m \in HoverModes : Change(SetHoverMode(w, m))
    \/ \E w \in Widgets, v \in BOOLEAN : Change(SetDisabled(w, v))
    \/ \E w \in Widgets, to \in {"detached", "dead", "broken"} :
          Change(Remove(w, to))
    \/ \E gl \in GrabLists(MaxExternalGrabs) : Change(ExternalGrab(1, gl))

Spec == Init /\ [][Next]_vars

----------------------------------------------------------------------------
(* The manager without its timer (event_repeat_timeout < 0, never started),  *)
(* over a tree the application changes more                                 *)

\* Changes made from outside the manager in one behaviour of SpecTree.
MaxTreeChanges == 2

InitTree == InitWith({-1}, FALSE)

TreeChange(A) == changes < MaxTreeChanges /\ changes' = changes + 1 /\ A

NextTree ==
    \/ Call(Stop)
    \/ \E etype \in ETypes, p \in Pos : Call(Dispatch(etype, 1, p))
    \/ \E w \in Widgets, m \in HoverModes : TreeChange(SetHoverMode(w, m))
    \/ \E w \in Widgets, v \in BOOLEAN : TreeChange(SetDisabled(w, v))
    \/ \E w \in Widgets, to \in {"detached", "dead", "broken"} :
          TreeChange(Remove(w, to))

SpecTree == InitTree /\ [][NextTree]_vars

----------------------------------------------------------------------------
(* The idle repeat timer over many frames: a manager with a repeat interval  *)
(* of several frames, and a pointer that rests at point 1                   *)

\* event_repeat_timeout in SpecClock, in frames.
ClockTimeout == 4

\* Frames the clock runs for in SpecClock.
MaxClockTime == 18

InitClock == InitWith({ClockTimeout}, TRUE)

NextClock ==
    \/ Call(Start)
    \/ Call(Stop)
    \/ \E etype \in ETypes : Call(Dispatch(etype, 1, 1))
    \/ Call(Tick(MaxClockTime))

SpecClock == InitClock /\ [][NextClock]_vars

----------------------------------------------------------------------------
(* The manager without its timer, for an event that other code grabs while  *)
(* the application leaves widgets where the coordinate transform fails      *)

NextGrab ==
    \/ Call(Stop)
    \/ \E etype \in ETypes, p \in Pos : Call(Dispatch(etype, 1, p))
    \/ \E w \in Widgets : TreeChange(Remove(w, "broken"))
    \/ \E gl \in GrabLists(MaxExternalGrabs) : TreeChange(ExternalGrab(1, gl))

SpecGrab == InitTree /\ [][NextGrab]_vars

----------------------------------------------------------------------------
(* A manager whose event_repeat_timeout the application assigns again, with  *)
(* a pointer that rests at point 1                                          *)

\* event_repeat_timeout when the manager is made in SpecRetime, in frames.
RetimeTimeout == 2

\* Frames the clock runs for in SpecRetime.
MaxRetimeTime == 5

\* The values the application assigns to event_repeat_timeout.
Retimes == {-1, 1, 2, 4}

\* The application assigns manager.event_repeat_timeout
SetTimeout(v) ==
    /\ ~error
    /\ event_repeat_timeout # v
    /\ event_repeat_timeout' = v
    /\ UNCHANGED <<hover_mode, disabled, wstate, hover_ids, events, _events,
                   _event_times, _clock_event, Clock, timers, now, error, idle>>
    /\ log' = <<>>

InitRetime == InitWith({RetimeTimeout}, FALSE)

NextRetime ==
    \/ Call(Start)
    \/ Call(Stop)
    \/ \E etype \in ETypes : Call(Dispatch(etype, 1, 1))
    \/ Call(Tick(MaxRetimeTime))
    \/ \E v \in Retimes : Change(SetTimeout(v))

SpecRetime == InitRetime /\ [][NextRetime]_vars

----------------------------------------------------------------------------
(* The manager without its timer, for two events over a tree that does not   *)
(* change                                                                   *)

\* HoverBehavior.hovered: bool(self.hover_ids)
hovered(w) == \E uid \in Uids : hover_ids[w][uid] # NoPos

NextMulti ==
    \/ Call(Stop)
    \/ \E etype \in ETypes, uid \in Uids, p \in Pos :
          Call(Dispatch(etype, uid, p))

SpecMulti == InitTree /\ [][NextMulti]_vars

----------------------------------------------------------------------------
(* The timer over two events that rest at a point of A or at a point of B    *)

\* Frames the clock runs for in SpecBatch.
MaxBatchTime == 2

\* The points the two events are reported at in SpecBatch.
BatchPos == {1, 3}

InitBatch == InitWith({0, 1}, FALSE)

NextBatch ==
    \/ Call(Start)
    \/ Call(Stop)
    \/ \E etype \in ETypes, uid \in Uids, p \in BatchPos :
          Call(Dispatch(etype, uid, p))
    \/ Call(Tick(MaxBatchTime))

SpecBatch == InitBatch /\ [][NextBatch]_vars

----------------------------------------------------------------------------
(* Reading the deliveries of a manager call *)

\* the entries of kind k about event uid
At(L, k, uid) == {i \in 1..Len(L) : L[i].k = k /\ L[i].uid = uid}

\* dispatch(etype, uid) was called in the call that left L
Dispatched(L, uid) == At(L, "dispatch", uid) # {}

\* the direct deliveries of "end" to w, with grab_current set to w
DirectEnds(L, w, uid) ==
    {i \in At(L, "on_motion", uid) :
        /\ L[i].ph = "direct"
        /\ L[i].etype = "end"
        /\ L[i].w = w
        /\ L[i].gc = w}

\* i lies after the walk of the dispatch of uid and before its return
AfterWalk(L, i, uid) ==
    /\ \E a \in At(L, "store", uid) : a < i
    /\ \E b \in At(L, "return", uid) : i < b

\* the event's grab list at the end of the walk
WalkGrabList(L, uid) ==
    L[CHOOSE a \in At(L, "store", uid) : TRUE].gl

\* the snapshot the ledger holds for uid
Snapshot(uid) == _events[uid][1]

\* the coordinate transform to w is attempted and raises
TransformRaises(w) == get_root_window(w) /\ TransformFails(w)

----------------------------------------------------------------------------
(* C1 *)

\* a step in which event uid is dispatched while the ledger holds w for it,
\* and the walk of that dispatch does not grab w
Dropped(w, uid) ==
    /\ uid \in DOMAIN _events
    /\ InSeq(w, Snapshot(uid))
    /\ Resolves(w)
    /\ Dispatched(log', uid)
    /\ At(log', "store", uid) # {}
    /\ ~InSeq(w, WalkGrabList(log', uid))

\* w got "end" directly exactly once, between the walk and the return
EndedOnce(w, uid) ==
    /\ Cardinality(DirectEnds(log', w, uid)) = 1
    /\ \A i \in DirectEnds(log', w, uid) : AfterWalk(log', i, uid)

\* C1 as stated: Grab symmetry.  A live widget that is in the snapshot stored
\* for an event and is not grabbed by the walk of the event's next dispatch
\* (real or from the timer) is delivered "end" directly exactly once in that
\* dispatch call, after the walk and before the return, with grab_current
\* set to it.
C1_GrabSymmetry_AsStated ==
    [][\A w \in Widgets, uid \in Uids : Dropped(w, uid) => EndedOnce(w, uid)]_vars

\* C1 amended: the same, for a widget the coordinate transform to which does
\* not raise; a widget whose transform raises gets no delivery at all.
C1_GrabSymmetry ==
    [][\A w \in Widgets, uid \in Uids :
          Dropped(w, uid) =>
              IF TransformRaises(w)
              THEN DirectEnds(log', w, uid) = {}
              ELSE EndedOnce(w, uid)]_vars

\* a dispatch whose walk grabbed one widget and whose reconciliation ended
\* another one
C1_Witness ==
    \E i, j, k \in 1..Len(log) :
        /\ i < j /\ j < k
        /\ log[i].k = "store" /\ log[i].gl # <<>>
        /\ log[j].k = "on_motion" /\ log[j].ph = "direct"
        /\ log[j].etype = "end" /\ log[j].w = log[j].gc
        /\ ~InSeq(log[j].w, log[i].gl)
        /\ log[k].k = "return"

----------------------------------------------------------------------------
(* C2 *)

\* the on_hover_leave events w fired for uid
Leaves(L, w, uid) ==
    {i \in At(L, "on_hover_leave", uid) : L[i].w = w}

\* C2: End guarantee.  A live widget that recorded an event in hover_ids and
\* is dropped from the grab set by a dispatch of that event fires
\* on_hover_leave exactly once in that dispatch and no longer records the
\* event, whatever the hover modes and the disabled settings are.  (Stated
\* for widgets whose coordinate transform does not raise.)
C2_EndGuarantee ==
    [][\A w \in Widgets, uid \in Uids :
          (/\ Dropped(w, uid)
           /\ ~TransformRaises(w)
           /\ hover_ids[w][uid] # NoPos)
          => /\ Cardinality(Leaves(log', w, uid)) = 1
             /\ hover_ids'[w][uid] = NoPos]_vars

----------------------------------------------------------------------------
(* C3 *)

\* a dispatch of etype for uid returned in the call that left L
Returned(L, etype, uid) ==
    \E i \in At(L, "return", uid) : L[i].etype = etype

\* the call that left L was a callback of the timer
FromClock(L) == L # <<>> /\ L[1].k = "tick"

\* C3: Ledger cleanup.  When a dispatch of "end" for an event returns, neither
\* _events nor _event_times has an entry for it, and a tick of the timer
\* dispatches only events the ledger holds: an ended event is not dispatched
\* again by the timer until a new delivery stores it.
C3_LedgerCleanup ==
    [][\A uid \in Uids :
          /\ Returned(log', "end", uid) =>
                 /\ uid \notin DOMAIN _events'
                 /\ uid \notin DOMAIN _event_times'
          /\ (FromClock(log') /\ Dispatched(log', uid)) =>
                 uid \in DOMAIN _events]_vars

\* an "end" was dispatched for a tracked event while the timer runs, and the
\* ledger no longer has the event
C3_Witness ==
    /\ Returned(log, "end", 1)
    /\ \E i \in At(log, "reconcile", 1) : log[i].gl # <<>>
    /\ timers # <<>>
    /\ 1 \notin DOMAIN _events
    /\ 1 \notin DOMAIN _event_times

----------------------------------------------------------------------------
(* C4 *)

\* the call that left L was stop()
Stopped(L) == L # <<>> /\ L[1].k = "stop"

\* C4: Shutdown flush.  When stop() is called, every live widget in the
\* snapshot stored for each tracked event is delivered "end" directly; when it
\* returns the ledger and the times are empty, the timer is cancelled, and no
\* live widget still records a tracked event in hover_ids.  (Stated for events
\* that no other code has grabbed and for widgets whose coordinate transform
\* does not raise.)
C4_ShutdownFlush ==
    [][(/\ Stopped(log')
        /\ \A uid \in DOMAIN _events : events[uid].grab_list = <<>>)
       => /\ \A uid \in DOMAIN _events, w \in Widgets :
                (InSeq(w, Snapshot(uid)) /\ Resolves(w) /\ ~TransformRaises(w))
                => DirectEnds(log', w, uid) # {}
          /\ _events' = <<>>
          /\ _event_times' = <<>>
          /\ _clock_event' = 0
          /\ timers' = <<>>
          /\ \A uid \in DOMAIN _events, w \in Widgets :
                (Resolves(w) /\ ~TransformRaises(w))
                => hover_ids'[w][uid] = NoPos]_vars

----------------------------------------------------------------------------
(* C5 *)

\* C5: Grab-list restoration.  Every dispatch call returns, and when it does
\* the event's grab_list is what it was when dispatch was entered: the same
\* references in the same order.
C5_GrabListRestored ==
    [][\A uid \in Uids :
          Dispatched(log', uid) =>
              /\ At(log', "return", uid) # {}
              /\ events'[uid].grab_list = events[uid].grab_list]_vars

\* a dispatch of an event that other code had grabbed: its walk grabbed a
\* widget, and the coordinate transform of a direct delivery failed
C5_Witness ==
    /\ events[1].grab_list # <<>>
    /\ \E i \in At(log, "store", 1) : log[i].gl # <<>>
    /\ At(log, "transform_failed", 1) # {}
    /\ At(log, "return", 1) # {}

----------------------------------------------------------------------------
(* C6 *)

\* what the top-level widgets returned in the walk, in the order of the calls
TopReturns(L, uid) ==
    SelectSeq(L, LAMBDA e : e.k = "returned" /\ e.uid = uid)

\* the calls of on_motion the walk made on top-level widgets
TopOffers(L, uid) ==
    {i \in At(L, "on_motion", uid) :
        L[i].ph = "walk" /\ L[i].w \in Range(WindowChildren)}

\* C6: First-match-wins.  A dispatch offers the event to the window's
\* children in children order, each at most once, and stops at the first that
\* returns true; it returns true exactly when one of them did, whatever the
\* direct "end" deliveries of the reconciliation returned.
C6_FirstMatchWins ==
    \A uid \in Uids :
        Dispatched(log, uid) =>
            LET R  == TopReturns(log, uid)
                ws == LiveChildren(WindowChildren)
            IN /\ Len(R) <= Len(ws)
               /\ Cardinality(TopOffers(log, uid)) = Len(R)
               /\ \A i \in 1..Len(R) : R[i].w = ws[i]
               /\ \A i \in 1..(Len(R) - 1) : ~R[i].acc
               /\ Len(R) < Len(ws) => (Len(R) > 0 /\ R[Len(R)].acc)
               /\ \E j \in At(log, "return", uid) :
                      log[j].acc = (\E i \in 1..Len(R) : R[i].acc)

\* no top-level widget accepted, a direct "end" made a widget leave (so that
\* delivery returned true), and dispatch returned false
C6_Witness ==
    /\ Len(TopReturns(log, 1)) = 2
    /\ \E i \in At(log, "on_hover_leave", 1) : log[i].ph = "direct"
    /\ \E j \in At(log, "return", 1) : ~log[j].acc

----------------------------------------------------------------------------
(* C7 *)

\* the frames of a repeat interval
T == event_repeat_timeout

\* the frames between the timer's ticks and the event's last real sample,
\* modulo the interval
Offset == (idle.since - timers[_clock_event].last) % T

\* the event has rested for 7/2 intervals (0.35 s for an interval of 0.1 s)
\* under a running timer, and the next frame is past that
WindowCloses ==
    /\ idle.held
    /\ 2 * (now - idle.since) <= 7 * T
    /\ 2 * (now + 1 - idle.since) > 7 * T

\* every repeat comes an interval or more after the delivery before it, and
\* the event never waits two intervals for the next one
RepeatsSpaced ==
    idle.held =>
        /\ _event_times[1] >= idle.since + idle.n * T
        /\ now - _event_times[1] < 2 * T

\* C7 as stated: Idle repeat timing.  An event that rests under a running
\* timer of interval T is repeated once per interval, never sooner than T
\* after a delivery, and when it has rested for 7/2 intervals it has been
\* repeated exactly 3 times, whatever the offset between its last sample and
\* the timer's ticks.
C7_IdleRepeat_AsStated ==
    /\ RepeatsSpaced
    /\ WindowCloses => idle.n = 3

\* C7 amended: the first repeat comes with the first tick of the timer that
\* is an interval or more after the sample, so between T and 2T after it, and
\* then every tick repeats the event; after 7/2 intervals the event has been
\* repeated 3 times when the offset is zero or at least half an interval, and
\* 2 times otherwise.
C7_IdleRepeat ==
    /\ RepeatsSpaced
    /\ WindowCloses =>
           idle.n = IF Offset = 0 \/ 2 * Offset >= T THEN 3 ELSE 2

\* an event that rested for 7/2 intervals and was repeated twice
C7_Witness == WindowCloses /\ idle.n = 2 /\ hover_ids["A"][1] # NoPos

----------------------------------------------------------------------------
(* C8 *)

\* C8: Idle repeat deltas.  In every delivery of a dispatch the timer makes
\* the event's delta is zero and its previous position is its position; when
\* the callback returns, the delta and the previous position are what they
\* were before it.
C8_IdleRepeatDeltas ==
    [][FromClock(log') =>
          /\ \A i \in 1..Len(log') : log'[i].uid \in Uids => log'[i].zero
          /\ \A uid \in Uids :
                 /\ events'[uid].dpos = events[uid].dpos
                 /\ events'[uid].ppos = events[uid].ppos]_vars

\* the timer repeated an event whose last sample was a move, and widgets
\* were offered it
C8_Witness ==
    /\ FromClock(log)
    /\ Dispatched(log, 1)
    /\ \E i \in At(log, "on_hover_event", 1) : log[i].zero
    /\ events[1].dpos # 0
    /\ events[1].ppos # events[1].pos

----------------------------------------------------------------------------
(* C9 *)

\* C9: A negative repeat interval disables idle repeating.  Whatever start,
\* dispatch and stop calls a manager constructed with a negative
\* event_repeat_timeout gets, no timer is scheduled and no call comes from a
\* timer.
C9_NegativeDisables ==
    event_repeat_timeout < 0 =>
        /\ timers = <<>>
        /\ _clock_event = 0
        /\ ~FromClock(log)

\* frames went by while a manager with a negative interval tracked an event
\* that a widget records
C9_Witness ==
    /\ event_repeat_timeout < 0
    /\ now > 0
    /\ 1 \in DOMAIN _events
    /\ hover_ids["A"][1] # NoPos

----------------------------------------------------------------------------
(* C10 *)

\* the on_hover_enter events w fired for uid
Enters(L, w, uid) ==
    {i \in At(L, "on_hover_enter", uid) : L[i].w = w}

\* the on_hover_update events w fired for uid
Updates(L, w, uid) ==
    {i \in At(L, "on_hover_update", uid) : L[i].w = w}

\* C10: No duplicate enter.  In a dispatch (real or from the timer) a widget
\* fires on_hover_enter only when it does not record the event yet, fires
\* on_hover_update only when it records it with another position than the
\* event's, and fires at most one of them: a widget that records the event
\* with the event's position fires nothing.
C10_NoDuplicateEnter ==
    [][\A w \in Widgets, uid \in Uids :
          /\ Cardinality(Enters(log', w, uid) \cup Updates(log', w, uid)) <= 1
          /\ Enters(log', w, uid) # {} => hover_ids[w][uid] = NoPos
          /\ Updates(log', w, uid) # {} =>
                 /\ hover_ids[w][uid] # NoPos
                 /\ hover_ids[w][uid] # events'[uid].pos]_vars

\* the timer repeated an event to the widget that records it, at the
\* recorded position, and the widget fired nothing
C10_Witness ==
    /\ FromClock(log)
    /\ \E i \in At(log, "on_hover_event", 1) :
           log[i].w = "A" /\ log[i].ph = "walk"
    /\ hover_ids["A"][1] = events[1].pos
    /\ InSeq("A", _events[1][1])
    /\ Enters(log, "A", 1) \cup Updates(log, "A", 1) = {}

----------------------------------------------------------------------------
(* C11 *)

\* the ledger holds w for uid
Held(w, uid) == uid \in DOMAIN _events /\ InSeq(w, Snapshot(uid))

\* C11: No re-notification.  A widget that is delivered "end" directly for an
\* event is not in the snapshot the call leaves; a widget that is not in the
\* snapshot gets no direct "end" and fires no on_hover_leave, in a dispatch
\* (real, from the timer, or the terminal "end") or in stop(); and it comes
\* into the snapshot again only by grabbing the event in a walk.
C11_NoRenotification ==
    [][\A w \in Widgets, uid \in Uids :
          /\ DirectEnds(log', w, uid) # {} => ~Held(w, uid)'
          /\ ~Held(w, uid) =>
                 /\ DirectEnds(log', w, uid) = {}
                 /\ Leaves(log', w, uid) = {}
          /\ (~Held(w, uid) /\ Held(w, uid)') =>
                 /\ At(log', "store", uid) # {}
                 /\ InSeq(w, WalkGrabList(log', uid))]_vars

\* the terminal "end" of an event is offered to A and B, B is delivered "end"
\* directly and leaves, and A, which the ledger does not hold, gets nothing
C11_Witness ==
    /\ Returned(log, "end", 1)
    /\ Len(TopReturns(log, 1)) = 2
    /\ DirectEnds(log, "B", 1) # {}
    /\ Leaves(log, "B", 1) # {}
    /\ DirectEnds(log, "A", 1) = {}
    /\ hover_ids["A"][1] = NoPos

----------------------------------------------------------------------------
(* C12 *)

\* dispatch(etype, uid) was called in the call that left L
DispatchedAs(L, etype, uid) ==
    \E i \in At(L, "dispatch", uid) : L[i].etype = etype

\* the deliveries made directly to a widget, for uid
Directs(L, uid) == {i \in At(L, "on_motion", uid) : L[i].ph = "direct"}

\* C12: Ledger miss.  A dispatch of "update" or "end" for an event the ledger
\* has no entry for raises nothing and returns, delivers nothing directly to
\* any widget, and leaves the ledger with one entry (and a time) for the event
\* after "update" and with none after "end".
C12_LedgerMiss ==
    [][\A uid \in Uids :
          (uid \notin DOMAIN _events /\ Dispatched(log', uid)) =>
              /\ DispatchedAs(log', "update", uid) =>
                     /\ ~error'
                     /\ Returned(log', "update", uid)
                     /\ Directs(log', uid) = {}
                     /\ uid \in DOMAIN _events'
                     /\ Len(_events'[uid]) = 1
                     /\ uid \in DOMAIN _event_times'
              /\ DispatchedAs(log', "end", uid) =>
                     /\ ~error'
                     /\ Returned(log', "end", uid)
                     /\ Directs(log', uid) = {}
                     /\ uid \notin DOMAIN _events'
                     /\ uid \notin DOMAIN _event_times']_vars

\* an "update" of an event the ledger had no entry for (nothing was
\* reconciled) returned, a widget grabbed it, and the ledger tracks it
C12_Witness ==
    /\ Returned(log, "update", 1)
    /\ At(log, "reconcile", 1) = {}
    /\ \E i \in At(log, "store", 1) : log[i].gl # <<>>
    /\ 1 \in DOMAIN _events

----------------------------------------------------------------------------
(* C13 *)

\* the push/pop depth of the event in the reconciliation loop when e was
\* logged: a direct delivery to a widget under the window and a failed
\* transform are logged one push deeper
LoopDepth(e) ==
    IF \/ e.k = "transform_failed"
       \/ e.k = "on_motion" /\ e.ph = "direct" /\ get_root_window(e.w)
    THEN e.depth - 1
    ELSE e.depth

\* C13: Transform-failure isolation.  When the coordinate transform to a
\* widget raises in the reconciliation of a dispatch, only that delivery is
\* skipped: the event was pushed once and is popped back before what follows,
\* every other live widget of the previous snapshot that the walk dropped is
\* still delivered its "end" once, the ledger holds the snapshot of the walk
\* (or nothing after "end"), the event's grab_list and depth are those of
\* entry, and dispatch returns without an error.
C13_TransformFailureIsolation ==
    [][\A uid \in Uids :
          (Dispatched(log', uid) /\ At(log', "transform_failed", uid) # {}) =>
              /\ \A i \in At(log', "transform_failed", uid) :
                     /\ \E r \in At(log', "reconcile", uid) :
                            r < i /\ log'[i].depth = log'[r].depth + 1
                     /\ i < Len(log')
                     /\ LoopDepth(log'[i + 1]) = log'[i].depth - 1
                     /\ DirectEnds(log', log'[i].w, uid) = {}
              /\ \A w \in Widgets :
                     (Dropped(w, uid) /\ ~TransformRaises(w)) => EndedOnce(w, uid)
              /\ IF DispatchedAs(log', "end", uid)
                 THEN uid \notin DOMAIN _events'
                 ELSE /\ uid \in DOMAIN _events'
                      /\ _events'[uid] = <<WalkGrabList(log', uid)>>
                      /\ uid \in DOMAIN _event_times'
              /\ events'[uid].grab_list = events[uid].grab_list
              /\ events'[uid].depth = events[uid].depth
              /\ At(log', "return", uid) # {}
              /\ ~error']_vars

\* the transform to C raised in the reconciliation of an "update", and A,
\* which follows C in the previous snapshot, was delivered "end" afterwards
\* and left; the ledger holds what the walk grabbed
C13_Witness ==
    /\ Returned(log, "update", 1)
    /\ \E i \in At(log, "transform_failed", 1), j \in DirectEnds(log, "A", 1) :
           log[i].w = "C" /\ i < j
    /\ Leaves(log, "A", 1) # {}
    /\ 1 \in DOMAIN _events
    /\ _events[1] = <<WalkGrabList(log, 1)>>
    /\ WalkGrabList(log, 1) # <<>>

----------------------------------------------------------------------------
(* C14 *)

\* the calls of on_motion in the deliveries L
Calls(L) == {i \in 1..Len(L) : L[i].k = "on_motion"}

\* the entry at which the call of on_motion logged at i returned
Exit(L, i) ==
    CHOOSE j \in (i + 1)..Len(L) :
        /\ L[j].k = "on_motion_return" /\ L[j].w = L[i].w
        /\ \A k \in (i + 1)..(j - 1) :
               ~(L[k].k = "on_motion_return" /\ L[k].w = L[i].w)

\* the entries of kind k that the call logged at i made about a widget of ws
Inside(L, i, k, ws) ==
    {n \in (i + 1)..(Exit(L, i) - 1) : L[n].k = k /\ L[n].w \in ws}

\* the widgets w holds
Held_by(w) == {c \in Widgets : Parent(c) = w}

ChildOffered(L, i)  == Inside(L, i, "on_motion", Held_by(L[i].w)) # {}

ChildAccepted(L, i) ==
    \E n \in Inside(L, i, "on_motion_return", Held_by(L[i].w)) : L[n].acc

OwnRuns(L, i)       == Inside(L, i, "on_hover_event", {L[i].w}) # {}

OwnAccepted(L, i)   == \E n \in Inside(L, i, "handled", {L[i].w}) : L[n].acc

\* what C14 says of the own handler, the result and the dispatch mode
ModesRest(L, i) ==
    /\ OwnRuns(L, i) <=>
           \/ hover_mode[L[i].w] \in {"self", "all"}
           \/ hover_mode[L[i].w] = "default" /\ ~ChildAccepted(L, i)
    /\ L[Exit(L, i)].acc <=> (ChildAccepted(L, i) \/ OwnAccepted(L, i))
    /\ L[Exit(L, i)].mode = L[i].mode

----------------------------------------------------------------------------
(* C15 *)

\* the deliveries of on_hover_event to a disabled widget the pointer is in:
\* any "begin" or "update", and an "end" while the widget is not grab_current
ToDisabled(L) ==
    {i \in 1..Len(L) :
        /\ L[i].k = "on_hover_event"
        /\ is_disabled(L[i].w)
        /\ Collide(L[i].w, events[L[i].uid].pos)
        /\ (L[i].etype = "end" => L[i].gc # L[i].w)}

\* the call of on_motion that made the delivery logged at i
Caller(L, i) ==
    CHOOSE c \in 1..(i - 1) :
        /\ L[c].k = "on_motion" /\ L[c].w = L[i].w
        /\ \A n \in (c + 1)..(i - 1) : ~(L[n].k = "on_motion" /\ L[n].w = L[i].w)

\* the walk offers the event to a sibling of the widget of entry i, after i
SiblingOfferedAfter(L, i) ==
    \E n \in (i + 1)..Len(L) :
        /\ L[n].k = "on_motion" /\ L[n].ph = "walk" /\ L[n].uid = L[i].uid
        /\ L[n].w # L[i].w
        /\ Parent(L[n].w) = Parent(L[i].w)

\* C15: Disabled widgets block but do not react.  A disabled widget that has
\* the pointer in its bounds and is delivered "begin" or "update", or "end"
\* for an event it is not the grab_current of, fires no on_hover_enter,
\* on_hover_update or on_hover_leave, does not grab the event and keeps its
\* hover_ids; its on_hover_event and its on_motion return true, and the walk
\* offers the event to none of its later siblings.
C15_DisabledBlocks ==
    \A i \in ToDisabled(log) :
        /\ i < Len(log)
        /\ log[i + 1].k = "handled"
        /\ log[i + 1].w = log[i].w
        /\ log[i + 1].acc
        /\ log[i + 1].gl = log[i].gl
        /\ log[i + 1].hid = log[i].hid
        /\ log[Exit(log, Caller(log, i))].acc
        /\ log[i].ph = "walk" => ~SiblingOfferedAfter(log, i)

\* A was hovered and then disabled; the pointer moved to a point of A and B:
\* A accepted the "update" without a callback, and B was not offered it
C15_Witness ==
    /\ disabled["A"]
    /\ events[1].pos = 2
    /\ Returned(log, "update", 1)
    /\ \E i \in ToDisabled(log) :
           /\ log[i].w = "A" /\ log[i].ph = "walk"
           /\ log[i].hid # NoPos
    /\ \A i \in TopOffers(log, 1) : log[i].w = "A"
    /\ \E j \in At(log, "return", 1) : log[j].acc

----------------------------------------------------------------------------
(* C16 *)

\* the events the call that left L dispatched
DispatchedIn(L) == {uid \in Uids : Dispatched(L, uid)}

\* the events a callback of the timer repeats at time t when the attribute
\* still has the value the timer was scheduled with
DueAsScheduled(t) ==
    {uid \in DOMAIN _events :
        t - _event_times[uid] >= timers[_clock_event].timeout}

\* C16: Changing event_repeat_timeout after the manager has started has no
\* effect.  Whatever the application assigns to the attribute after start(),
\* every callback of the timer dispatches "update" for exactly the events it
\* would dispatch with the value the timer was scheduled with.
C16_RetimeNoEffect ==
    [][(FromClock(log') /\ _clock_event # 0) =>
          DispatchedIn(log') = DueAsScheduled(now')]_vars

----------------------------------------------------------------------------
(* C17 *)

\* what the manager and the widgets keep about event uid
Kept(uid) ==
    [led  |-> IF uid \in DOMAIN _events THEN <<_events[uid]>> ELSE <<>>,
     tms  |-> IF uid \in DOMAIN _event_times THEN <<_event_times[uid]>> ELSE <<>>,
     hids |-> [w \in Widgets |-> hover_ids[w][uid]]]

\* C17: Multi-hover independence.  hovered is true iff hover_ids records an
\* event; a dispatch of any type for event X changes neither the ledger entry
\* and time of another event Y nor any widget's hover_ids entry for Y, so a
\* widget that records Y stays hovered when X leaves it or ends.
C17_MultiHover ==
    [][\A X \in Uids :
          (DispatchedIn(log') = {X} /\ ~FromClock(log')) =>
              \A Y \in Uids \ {X} :
                  /\ Kept(Y)' = Kept(Y)
                  /\ \A w \in Widgets :
                         /\ hover_ids[w][Y] # NoPos => hovered(w)'
                         /\ hovered(w)' <=>
                                (hover_ids[w][Y] # NoPos \/ hover_ids'[w][X] # NoPos)]_vars

\* both events hovered A; event 1 moved away and A fired on_hover_leave for
\* it, and A is still hovered by event 2, which the ledger still holds
C17_Witness ==
    /\ Leaves(log, "A", 1) # {}
    /\ hover_ids["A"][1] = NoPos
    /\ hover_ids["A"][2] # NoPos
    /\ hovered("A")
    /\ 2 \in DOMAIN _events
    /\ InSeq("A", Snapshot(2))

----------------------------------------------------------------------------
(* C18 *)

\* the entry at which the on_hover_event logged at i returned
Handled(L, i) ==
    CHOOSE h \in (i + 1)..Len(L) :
        /\ L[h].k = "handled" /\ L[h].w = L[i].w
        /\ \A n \in (i + 1)..(h - 1) : ~(L[n].k = "handled" /\ L[n].w = L[i].w)

\* the widgets whose on_hover_event grabbed the event in the walk of uid
GrabbedInWalk(L, uid) ==
    {L[i].w : i \in {n \in At(L, "on_hover_event", uid) :
                        /\ L[n].ph = "walk"
                        /\ L[Handled(L, n)].gl = Append(L[n].gl, L[n].w)}}

\* C18: Per-delivery grab scoping.  The snapshot a dispatch stores holds the
\* widgets that grabbed the event in the walk of that dispatch and no other
\* reference (none of an earlier delivery, none of the grab_list the caller
\* came with), each once; and when the dispatch has returned the ledger holds
\* that snapshot unaltered, whatever the widgets ungrabbed in the direct
\* "end" deliveries and whatever grab_list was put back.
C18_GrabScoping ==
    [][\A uid \in Uids :
          (Dispatched(log', uid) /\ At(log', "store", uid) # {} /\ ~error') =>
              /\ \A i, j \in 1..Len(WalkGrabList(log', uid)) :
                     i # j => WalkGrabList(log', uid)[i] # WalkGrabList(log', uid)[j]
              /\ Range(WalkGrabList(log', uid)) = GrabbedInWalk(log', uid)
              /\ ~DispatchedAs(log', "end", uid) =>
                     /\ uid \in DOMAIN _events'
                     /\ _events'[uid] = <<WalkGrabList(log', uid)>>]_vars

\* other code had grabbed the event; the walk grabbed a widget, the widget of
\* the earlier delivery left (and ungrabbed) in its direct "end", and the
\* ledger holds the widget of the walk only
C18_Witness ==
    /\ events[1].grab_list # <<>>
    /\ 1 \in DOMAIN _events
    /\ At(log, "store", 1) # {}
    /\ Snapshot(1) # <<>>
    /\ Snapshot(1) = WalkGrabList(log, 1)
    /\ \E w \in Widgets : Leaves(log, w, 1) # {} /\ ~InSeq(w, Snapshot(1))
    /\ \E w \in Range(events[1].grab_list) : ~InSeq(w, Snapshot(1))

----------------------------------------------------------------------------
(* C19 *)

\* the widgets whose on_hover_event returned true in the walk of uid without
\* grabbing the event
AcceptedUngrabbed(L, uid) ==
    {L[i].w : i \in {n \in At(L, "on_hover_event", uid) :
                        /\ L[n].ph = "walk"
                        /\ L[Handled(L, n)].acc
                        /\ L[Handled(L, n)].gl = L[n].gl}}

\* C19: No spurious end.  A widget is delivered "end" directly only when the
\* ledger held it in the snapshot of the event and the event's current grab
\* list (that of the walk, in a dispatch) does not name it.  Hence a widget of
\* the snapshot that grabs the event again in the walk gets no direct "end",
\* fires no on_hover_leave and still records the event; and a widget that
\* accepts the event without grabbing it is not in the snapshot stored, and
\* gets no direct "end" unless the ledger held it from before.
C19_NoSpuriousEnd ==
    [][\A w \in Widgets, uid \in Uids :
          /\ DirectEnds(log', w, uid) # {} =>
                 /\ uid \in DOMAIN _events
                 /\ InSeq(w, Snapshot(uid))
                 /\ Dispatched(log', uid) => ~InSeq(w, WalkGrabList(log', uid))
                 /\ Stopped(log') => ~InSeq(w, events[uid].grab_list)
          /\ (/\ Dispatched(log', uid)
              /\ At(log', "store", uid) # {}
              /\ InSeq(w, WalkGrabList(log', uid))) =>
                 /\ DirectEnds(log', w, uid) = {}
                 /\ Leaves(log', w, uid) = {}
                 /\ hover_ids'[w][uid] # NoPos
          /\ (/\ Dispatched(log', uid)
              /\ At(log', "store", uid) # {}
              /\ w \in AcceptedUngrabbed(log', uid)) =>
                 /\ ~InSeq(w, WalkGrabList(log', uid))
                 /\ ~Held(w, uid) => DirectEnds(log', w, uid) = {}]_vars

\* B held the event; the pointer moved to a point of the disabled A, which
\* accepted the "update" without grabbing it: B was ended directly, A was not
C19_Witness ==
    /\ Returned(log, "update", 1)
    /\ is_disabled("A")
    /\ "A" \in AcceptedUngrabbed(log, 1)
    /\ \E r \in At(log, "reconcile", 1) : log[r].gl = <<"B">>
    /\ DirectEnds(log, "B", 1) # {}
    /\ DirectEnds(log, "A", 1) = {}
    /\ 1 \in DOMAIN _events
    /\ Snapshot(1) = <<>>

----------------------------------------------------------------------------
(* C20 *)

\* C20: Ledger shape.  At every point of a manager call the ledger holds at
\* most 2 entries for an event, and between calls (after any sequence of
\* dispatch, tick, start and stop) every event of the ledger has exactly one
\* entry and the times are kept for exactly the events of the ledger.
C20_LedgerShape ==
    /\ \A i \in 1..Len(log) : log[i].n <= 2
    /\ \A uid \in DOMAIN _events : Len(_events[uid]) = 1
    /\ DOMAIN _event_times = DOMAIN _events

\* the timer repeated a tracked event: the ledger held two entries for it
\* when the walk was stored, and holds one now, with its time
C20_Witness ==
    /\ FromClock(log)
    /\ \E i \in At(log, "store", 1) : log[i].n = 2
    /\ 1 \in DOMAIN _events
    /\ Len(_events[1]) = 1
    /\ 1 \in DOMAIN _event_times

----------------------------------------------------------------------------
(* C21 *)

\* the dispatch calls made in the call that left L, in order
DispatchCalls(L) == SelectSeq(L, LAMBDA e : e.k = "dispatch")

\* the events whose last delivery is an interval or more before time t
DueAt(t) ==
    {uid \in DOMAIN _events : ~(t - _event_times[uid] < event_repeat_timeout)}

\* C21: Tick batching.  A callback of the timer dispatches "update" for
\* exactly the events that were due when it began, each once: the times its
\* own dispatches write bring no event into the batch again, and one frame
\* runs the callback once.
C21_TickBatching ==
    [][FromClock(log') =>
          LET D == DispatchCalls(log') IN
          /\ \A i, j \in 1..Len(D) : i # j => D[i].uid # D[j].uid
          /\ \A i \in 1..Len(D) : D[i].etype = "update"
          /\ {D[i].uid : i \in 1..Len(D)} = DueAt(now')
          /\ Cardinality({i \in 1..Len(log') : log'[i].k = "tick"}) = 1]_vars

\* one callback of the timer dispatched both events, each once, and both
\* are due again at once (the interval is zero)
C21_Witness ==
    /\ FromClock(log)
    /\ Len(DispatchCalls(log)) = 2
    /\ DueAt(now) = {1, 2}
    /\ hover_ids["A"][1] # NoPos
    /\ hover_ids["B"][2] # NoPos

----------------------------------------------------------------------------
(* C22 *)

\* what a reconciliation pass must leave as it found it
Fields(gc, gs, te, gl) == [gc |-> gc, gs |-> gs, te |-> te, gl |-> gl]

FieldsAt(e) == Fields(e.gc, e.gs, e.te, e.gl)

FieldsOf(me) == Fields(me.grab_current, me.grab_state, me.time_end, me.grab_list)

\* the entries logged inside a direct delivery
InDirect(L) ==
    {i \in 1..Len(L) :
        /\ L[i].ph = "direct"
        /\ L[i].k \in {"on_motion", "on_hover_event", "on_hover_leave",
                       "handled", "on_motion_return"}}

\* w is c or a widget that holds c, directly or not
RECURSIVE Holds(_, _)
Holds(w, c) == c # None /\ (w = c \/ Holds(w, Parent(c)))

\* C22: Transient termination fields.  All through a direct "end" delivery
\* the event's grab_current is the widget the delivery is addressed to and
\* its grab_state is true; when a reconciliation pass is over, in dispatch or
\* in stop, grab_current, grab_state, time_end and grab_list are what they
\* were right before the pass.
C22_TransientFields ==
    [][/\ \A i \in InDirect(log') :
              /\ log'[i].k # "on_hover_leave" => log'[i].etype = "end"
              /\ log'[i].gs
              /\ log'[i].gc \in Widgets
              /\ Holds(log'[i].gc, log'[i].w)
              /\ log'[i].k = "on_motion" /\ Parent(log'[i].w) = None =>
                     log'[i].gc = log'[i].w
       /\ \A uid \in Uids :
              /\ At(log', "reconcile", uid) # {} => At(log', "reconciled", uid) # {}
              /\ \A j \in At(log', "reconciled", uid) :
                     IF Stopped(log')
                     THEN /\ FieldsAt(log'[j]) = FieldsOf(events[uid])
                          /\ FieldsOf(events'[uid]) = FieldsOf(events[uid])
                     ELSE \E a \in At(log', "store", uid) :
                              a < j /\ FieldsAt(log'[j]) = FieldsAt(log'[a])]_vars

\* stop() ended a widget directly for an event that other code had grabbed:
\* during the delivery the grab list was the snapshot, afterwards it is the
\* list of before
C22_Witness ==
    /\ Stopped(log)
    /\ events[1].grab_list # <<>>
    /\ ~events[1].grab_state
    /\ \E i \in InDirect(log) :
           /\ log[i].k = "on_motion" /\ log[i].w = log[i].gc
           /\ log[i].gs
           /\ log[i].gl # events[1].grab_list
    /\ \E w \in Widgets : Leaves(log, w, 1) # {}
    /\ \E j \in At(log, "reconciled", 1) : log[j].gl = events[1].grab_list

----------------------------------------------------------------------------
(* C23 *)

\* w records event uid in hover_ids
Records(w, uid) == hover_ids[w][uid] # NoPos

\* C23: Hover state agrees with the ledger.  Between manager calls, a live
\* widget records an event in hover_ids iff the snapshot the ledger stores
\* for the event names it; so once the event has ended or the manager has
\* stopped, no widget records it.  (Stated for widgets whose coordinate
\* transform does not raise.)
C23_HoverMatchesLedger ==
    \A w \in Widgets, uid \in Uids :
        (Resolves(w) /\ ~TransformRaises(w)) =>
            (Records(w, uid) <=> Held(w, uid))

----------------------------------------------------------------------------
(* C24 *)

\* C24: Timer uniqueness.  At most one timer is scheduled, and it is the one
\* _clock_event names; start() schedules one timer when none is scheduled
\* (at first or after a stop) and none when one is, and stop() leaves no
\* timer scheduled.
C24_TimerUniqueness ==
    [][/\ Len(timers') <= 1
       /\ (_clock_event' # 0) <=> (timers' # <<>>)
       /\ _clock_event' \in {0, 1}
       /\ Start =>
              IF event_repeat_timeout < 0 THEN timers' = timers
              ELSE IF _clock_event # 0 THEN timers' = timers
              ELSE /\ Len(timers') = 1
                   /\ timers'[1] = [timeout |-> event_repeat_timeout, last |-> now]
       /\ Stopped(log') => (timers' = <<>> /\ _clock_event' = 0)]_vars

\* start() was called after the clock had run: one timer is scheduled, set at
\* the time of the call, and the manager tracks nothing yet
C24_Witness ==
    /\ log = <<>>
    /\ now > 0
    /\ Len(timers) = 1
    /\ _clock_event = 1
    /\ timers[1].last = now
    /\ _events = <<>>

====
